---- MODULE Spec2Model ----
(***************************************************************************)
(* Model of parserClang.py: a run of main() over a file or a directory,    *)
(* the aggregation of function declarations and call expressions into the  *)
(* two process-wide tables, the classification against the syscall list    *)
(* and the output document.  Strings the code inspects (display names,     *)
(* file paths, qualified names) are sequences of one-character strings.    *)
(***************************************************************************)
EXTENDS Integers, Sequences, FiniteSets, TLC

VARIABLES
    pc,               \* position of main(): start, check, walk, finish, ...
    silent,           \* global silent (args.silent)
    verbose,          \* global verbose (args.verbose)
    include,          \* args.include: "none", "given" or "missing" (file absent)
    folder,           \* args.folder
    global_funcs,     \* table of declarations: name -> [count, files]
    global_calls,     \* table of calls: name -> [count, files]
    stdout,           \* lines printed so far
    stderr,           \* messages on the error stream so far
    visited,          \* number of files handed to check_type_file
    current,          \* last file handed to check_type_file and what was done
    parses,           \* number of invocations of the AST provider
    syscalls,         \* the loaded syscall list, NoList before it is read
    compared,         \* number of executions of compare_syscalls
    called_syscalls,  \* result of compare_syscalls (calls)
    define_syscalls,  \* result of compare_syscalls (declarations)
    output_dict,      \* output_dict of main()
    written,          \* documents dumped to the output file
    seen,             \* history: qualifying nodes handed out by the provider
    plain,            \* the same run with silent and verbose disabled
    pathkind,         \* what check_input_path found at args.folder
    chain,            \* a cursor given to fully_qualified (resolver runs)
    qualified         \* its result

vars == <<pc, silent, verbose, include, folder, global_funcs, global_calls,
          stdout, stderr, visited, current, parses, syscalls, compared,
          called_syscalls, define_syscalls, output_dict, written, seen,
          plain, pathkind, chain, qualified>>

---------------------------------------------------------------------------
(* Bounds *)
MaxFiles == 2      \* files handed to check_type_file in one run
MaxDepth == 4      \* scopes from the translation unit down to a function

---------------------------------------------------------------------------
(* Helpers *)
Range(s) == {s[i] : i \in 1..Len(s)}

None == <<"None">>
NoList == "NoList"

EndsWith(s, suf) ==
    /\ Len(s) >= Len(suf)
    /\ SubSeq(s, Len(s) - Len(suf) + 1, Len(s)) = suf

---------------------------------------------------------------------------
(* Inputs: file names, display names, cursors *)
FileA == <<"a", ".", "c", "c">>
FileH == <<"h", ".", "h">>
FileN == <<"n", ".", "m", "d">>
Dir   == <<"d">>
FileNames == {FileA, FileH, FileN}
Folders == {Dir, FileA}

\* What the file system may hold at a path given as args.folder.
PathKinds(path) == IF path = Dir THEN {"dir", "none"} ELSE {"file", "none"}

NameR  == <<"r">>
NameRi == <<"r", "(", "i", ")">>
NameW  == <<"w", "(", ")">>
Syscalls == {<<NameR>>, <<<<"w">>, NameR>>}

Scope(kind, spelling) == [kind |-> kind, spelling |-> spelling]
Root == Scope("TRANSLATION_UNIT", <<"t">>)
Namespace(n) == Scope("NAMESPACE", n)

\* A cursor: its kind, the file of its location (None when absent), its
\* display name, its spelling, its semantic ancestors (outermost first) and,
\* for a call, the position in the unit of its resolved definition (0: absent).
Cursor(kind, file, displayname, spelling, parents, defn) ==
    [kind |-> kind, file |-> file, displayname |-> displayname,
     spelling |-> spelling, parents |-> parents, defn |-> defn]

\* The cursors of a unit with the given primary file: declarations and calls
\* written in the file itself, a declaration of the included header h.h, a
\* call without location and a cursor of another kind.
DeclR(primary) == Cursor("FUNCTION_DECL", primary, NameRi, NameR, <<Root>>, 0)
DeclW(primary) ==
    Cursor("FUNCTION_DECL", primary, NameW, <<"w">>,
           <<Root, Namespace(<<"n">>)>>, 0)
CallR(primary, defn) == Cursor("CALL_EXPR", primary, NameRi, NameR, <<Root>>, defn)
CallPlain(primary) == Cursor("CALL_EXPR", primary, NameR, NameR, <<Root>>, 0)
CallW(primary) == Cursor("CALL_EXPR", primary, <<"w">>, <<"w">>, <<Root>>, 0)
HeaderDecl == Cursor("FUNCTION_DECL", FileH, NameRi, NameR, <<Root>>, 0)
Unlocated == Cursor("CALL_EXPR", None, NameR, NameR, <<Root>>, 0)
Other(primary) == Cursor("VAR_DECL", primary, <<"v">>, <<"v">>, <<Root>>, 0)

Cursors(primary) ==
    { DeclR(primary), DeclW(primary), CallR(primary, 0), CallR(primary, 1),
      CallPlain(primary), CallW(primary), HeaderDecl, Unlocated, Other(primary) }

\* The preorder walks of the translation units the AST provider may return
\* for a file.
Trees(primary) ==
    { <<>>,
      <<DeclR(primary), CallR(primary, 1), CallPlain(primary)>>,
      <<HeaderDecl, CallR(primary, 1)>>,
      <<DeclW(primary), Unlocated, CallW(primary)>>,
      <<Other(primary), DeclR(primary), DeclR(primary)>>,
      <<CallR(primary, 0)>>,
      <<HeaderDecl, Unlocated>>,
      <<DeclW(primary), DeclR(primary), CallR(primary, 2), CallR(primary, 2)>>,
      <<CallW(primary), CallW(primary), DeclW(primary)>>,
      <<CallPlain(primary), HeaderDecl, DeclR(primary), CallR(primary, 3)>> }

\* The unit's spelling is the path it was asked to parse.
Units(filepath) ==
    { [spelling |-> filepath, nodes |-> ns] : ns \in Trees(filepath) }

---------------------------------------------------------------------------
(* Printed lines and error messages *)
Line(kind, text, at) == [kind |-> kind, text |-> text, at |-> at]
Message(kind, path) == [kind |-> kind, path |-> path]

Progress == {"gathering", "includes", "separator", "gathered"}

---------------------------------------------------------------------------
(* fully_qualified: a cursor is given as its chain of scopes, outermost     *)
(* first, the cursor itself last; its semantic parent is the chain without  *)
(* its last element, and the empty chain is the absent cursor.              *)
RECURSIVE fully_qualified(_)
fully_qualified(c) ==
    IF c = <<>> THEN <<>>
    ELSE IF c[Len(c)].kind = "TRANSLATION_UNIT" THEN <<>>
    ELSE LET res == fully_qualified(SubSeq(c, 1, Len(c) - 1))
         IN IF res # <<>> THEN res \o <<":", ":">> \o c[Len(c)].spelling
            ELSE c[Len(c)].spelling

\* The chain of a cursor of a unit.
ChainOf(c) == Append(c.parents, Scope(c.kind, c.spelling))

is_function_call(tu, funcdecl, c) ==
    LET defn == tu.nodes[c].defn
    IN (defn # 0) /\ (defn = funcdecl)

RECURSIVE SplitHead(_)
SplitHead(s) ==
    IF s = <<>> \/ Head(s) = "(" THEN <<>>
    ELSE <<Head(s)>> \o SplitHead(Tail(s))

filter_func_name(displayname) ==
    IF "(" \in Range(displayname) THEN SplitHead(displayname)
    ELSE displayname

\* Faulty variant: a name seen again has its count set to 1 instead of raised.
record_occurrence_reset(table, funcName, file) ==
    LET counted ==
            IF funcName \notin DOMAIN table
            THEN table @@ (funcName :> [count |-> 1, files |-> <<>>])
            ELSE [table EXCEPT ![funcName].count = 1]
    IN IF file \notin Range(counted[funcName].files)
       THEN [counted EXCEPT ![funcName].files = Append(@, file)]
       ELSE counted

\* Faulty variant: the file is added without looking for it in the record.
record_occurrence_always_add(table, funcName, file) ==
    LET counted ==
            IF funcName \notin DOMAIN table
            THEN table @@ (funcName :> [count |-> 1, files |-> <<>>])
            ELSE [table EXCEPT ![funcName].count = @ + 1]
    IN [counted EXCEPT ![funcName].files = Append(@, file)]

\* Lines 146-154 and 161-169: count one occurrence of funcName in a table and
\* add the file to its record when it is not there yet.
record_occurrence(table, funcName, file) ==
    LET counted ==
            IF funcName \notin DOMAIN table
            THEN table @@ (funcName :> [count |-> 1, files |-> <<>>])
            ELSE [table EXCEPT ![funcName].count = @ + 1]
    IN IF file \notin Range(counted[funcName].files)
       THEN [counted EXCEPT ![funcName].files = Append(@, file)]
       ELSE counted

\* Faulty variant: the cursor's file is not compared with the primary file.
visit_cursor_any_file(st, filename, c, i) ==
    IF c.file = None THEN st
    ELSE IF c.kind = "CALL_EXPR"
    THEN [st EXCEPT !.calls = Append(@, i),
                    !.global_calls =
                        record_occurrence(@, filter_func_name(c.displayname), c.file)]
    ELSE IF c.kind = "FUNCTION_DECL"
    THEN [st EXCEPT !.funcs = Append(@, i),
                    !.global_funcs =
                        record_occurrence(@, filter_func_name(c.displayname), c.file)]
    ELSE st

\* One iteration of the loop of find_funcs_and_calls on the cursor at
\* position i of the preorder walk.
visit_cursor(st, filename, c, i) ==
    IF c.file = None THEN st
    ELSE IF c.file # filename THEN st
    ELSE IF c.kind = "CALL_EXPR"
    THEN [st EXCEPT !.calls = Append(@, i),
                    !.global_calls =
                        record_occurrence(@, filter_func_name(c.displayname), c.file)]
    ELSE IF c.kind = "FUNCTION_DECL"
    THEN [st EXCEPT !.funcs = Append(@, i),
                    !.global_funcs =
                        record_occurrence(@, filter_func_name(c.displayname), c.file)]
    ELSE st

RECURSIVE walk_preorder(_, _, _)
walk_preorder(st, tu, i) ==
    IF i > Len(tu.nodes) THEN st
    ELSE walk_preorder(visit_cursor(st, tu.spelling, tu.nodes[i], i), tu, i + 1)

find_funcs_and_calls(w, tu) ==
    walk_preorder([global_funcs |-> w.global_funcs,
                   global_calls |-> w.global_calls,
                   funcs |-> <<>>, calls |-> <<>>], tu, 1)

\* The lines display_info_function prints for the declarations from
\* position k on.
RECURSIVE display_lines(_, _, _, _)
display_lines(tu, funcs, calls, k) ==
    IF k > Len(funcs) THEN <<>>
    ELSE LET f == funcs[k]
             sites == SelectSeq(calls, LAMBDA c : is_function_call(tu, f, c))
         IN <<Line("declaration", fully_qualified(ChainOf(tu.nodes[f])), f)>>
            \o [j \in 1..Len(sites) |-> Line("site", <<"-">>, sites[j])]
            \o <<Line("blank", <<>>, 0)>>
            \o display_lines(tu, funcs, calls, k + 1)

\* Faulty variant: the listing also records the calls it lists in the table.
display_info_function_recording(w, tu, funcs, calls) ==
    LET matched == SelectSeq(calls, LAMBDA c :
                        \E k \in 1..Len(funcs) : is_function_call(tu, funcs[k], c))
    IN [w EXCEPT !.stdout = @ \o display_lines(tu, funcs, calls, 1),
                 !.global_calls =
                    [key \in DOMAIN @ |->
                        [@[key] EXCEPT !.count = @ + Len(matched)]]]

display_info_function(w, tu, funcs, calls) ==
    [w EXCEPT !.stdout = @ \o display_lines(tu, funcs, calls, 1)]

\* parse_file: tu is what the AST provider returns for filepath.
parse_file(w, filepath, arguments, tu, verb) ==
    LET st == find_funcs_and_calls(w, tu)
        w1 == [w EXCEPT !.global_funcs = st.global_funcs,
                        !.global_calls = st.global_calls,
                        !.parses = @ + 1,
                        !.current = [file |-> filepath, parsed |-> TRUE,
                                     arguments |-> arguments, tu |-> tu,
                                     funcs |-> st.funcs, calls |-> st.calls]]
    IN IF verb
       THEN [display_info_function(w1, tu, st.funcs, st.calls)
                EXCEPT !.stdout = Append(@, Line("diagnostics", <<>>, 0))]
       ELSE w1

NoUnit == [spelling |-> None, nodes |-> <<>>]

CppOptions == <<"-x", "c++", "--std=c++11">>
IncludeFlags == <<"-isystem", "d/inc">>
IncludeFile == <<"i">>
SyscallsFile == <<"s">>

check_type_file(w, filepath, includePaths, tu, sil, verb) ==
    LET cplusplusOptions ==
            IF includePaths # None THEN CppOptions \o includePaths ELSE CppOptions
        cOptions == IF includePaths # None THEN includePaths ELSE <<>>
        w0 == [w EXCEPT !.current = [file |-> filepath, parsed |-> FALSE,
                                     arguments |-> <<>>, tu |-> NoUnit,
                                     funcs |-> <<>>, calls |-> <<>>]]
        w1 == IF ~sil
              THEN [w0 EXCEPT !.stdout = Append(@, Line("gathering", filepath, 0))]
              ELSE w0
    IN IF \/ EndsWith(filepath, <<".", "c", "p", "p">>)
          \/ EndsWith(filepath, <<".", "h", "p", "p">>)
          \/ EndsWith(filepath, <<".", "c", "c">>)
       THEN parse_file(w1, filepath, cplusplusOptions, tu, verb)
       ELSE IF \/ EndsWith(filepath, <<".", "c">>)
               \/ EndsWith(filepath, <<".", "h">>)
               \/ EndsWith(filepath, <<".", "h", "h">>)
       THEN parse_file(w1, filepath, cOptions, tu, verb)
       ELSE w1

\* Faulty variant: the second pass reads the call table again.
compare_syscalls_same_table(w, list, sil, verb) ==
    LET inCalls == {key \in DOMAIN w.global_calls : key \in Range(list)}
    IN [stdout |-> w.stdout,
        called_syscalls |-> [key \in inCalls |-> w.global_calls[key]],
        define_syscalls |-> [key \in inCalls |-> w.global_calls[key]]]

\* compare_syscalls on the tables of w: the printed lines and the two results.
compare_syscalls(w, list, sil, verb) ==
    LET inCalls == {key \in DOMAIN w.global_calls : key \in Range(list)}
        inFuncs == {key \in DOMAIN w.global_funcs : key \in Range(list)}
        head == IF ~sil THEN <<Line("gathered", <<>>, 0)>> ELSE <<>>
        shown == IF verb
                 THEN Cardinality(inCalls) + Cardinality(inFuncs)
                 ELSE 0
    IN [stdout |-> w.stdout \o head \o [j \in 1..shown |-> Line("syscall", <<>>, 0)],
        called_syscalls |-> [key \in inCalls |-> w.global_calls[key]],
        define_syscalls |-> [key \in inFuncs |-> w.global_funcs[key]]]

\* Lines 261-262: the tables as lists of name/value entries.
Entries(table) == {[name |-> key, value |-> table[key]] : key \in DOMAIN table}

---------------------------------------------------------------------------
(* History of what the AST provider handed out *)
\* The display name cut before its first "(", stated without the code.
Truncated(d) ==
    CHOOSE p \in {SubSeq(d, 1, n) : n \in 0..Len(d)} :
        /\ "(" \notin Range(p)
        /\ Len(p) = Len(d) \/ d[Len(p) + 1] = "("

Keys == {Truncated(c.displayname) : c \in Cursors(FileA)}

\* The number of cursors of the given kind that tu has in its own primary
\* file under the name key.
Occurrences(tu, kind, key) ==
    Cardinality({i \in 1..Len(tu.nodes) :
                    /\ tu.nodes[i].kind = kind
                    /\ tu.nodes[i].file = tu.spelling
                    /\ Truncated(tu.nodes[i].displayname) = key})

Seen(old, tu) ==
    [calls |-> [key \in Keys |->
                    old.calls[key] + Occurrences(tu, "CALL_EXPR", key)],
     funcs |-> [key \in Keys |->
                    old.funcs[key] + Occurrences(tu, "FUNCTION_DECL", key)]]

---------------------------------------------------------------------------
(* The run *)
World == [global_funcs |-> global_funcs, global_calls |-> global_calls,
          stdout |-> stdout, parses |-> parses, current |-> current]

PlainWorld == [global_funcs |-> plain.global_funcs,
               global_calls |-> plain.global_calls,
               stdout |-> <<>>, parses |-> parses, current |-> current]

NoFile == [file |-> None, parsed |-> FALSE, arguments |-> <<>>,
           tu |-> NoUnit, funcs |-> <<>>, calls |-> <<>>]

EmptyDict == [functions |-> {}, calls |-> {},
              called_syscalls |-> <<>>, define_syscalls |-> <<>>]

\* The state of the process before main has done anything.
Fresh ==
    /\ global_funcs = <<>>
    /\ global_calls = <<>>
    /\ stdout = <<>>
    /\ stderr = <<>>
    /\ visited = 0
    /\ current = NoFile
    /\ parses = 0
    /\ syscalls = NoList
    /\ compared = 0
    /\ called_syscalls = <<>>
    /\ define_syscalls = <<>>
    /\ output_dict = EmptyDict
    /\ written = <<>>
    /\ seen = [calls |-> [key \in Keys |-> 0], funcs |-> [key \in Keys |-> 0]]
    /\ plain = [global_funcs |-> <<>>, global_calls |-> <<>>,
                called_syscalls |-> <<>>, define_syscalls |-> <<>>,
                output_dict |-> EmptyDict, written |-> <<>>]
    /\ pathkind = "unknown"
    /\ qualified = <<>>

Init ==
    /\ pc = "start"
    /\ silent \in BOOLEAN
    /\ verbose \in BOOLEAN
    /\ include \in {"none", "given", "missing"}
    /\ folder \in Folders
    /\ chain = <<>>
    /\ Fresh

includePaths == IF include = "given" THEN IncludeFlags ELSE None

\* An uncaught exception: the traceback and the exception's message, which
\* names the given path (None: no path), go to the error stream and the
\* process ends.
Raise(exception, path) ==
    /\ stderr' = Append(stderr, Message(exception, path))
    /\ pc' = "aborted"

\* The effect of check_type_file(filepath) on the run and on its plain twin.
CheckTypeFile(filepath, tu) ==
    LET w == check_type_file(World, filepath, includePaths, tu, silent, verbose)
        q == check_type_file(PlainWorld, filepath, includePaths, tu, FALSE, FALSE)
    IN /\ global_funcs' = w.global_funcs
       /\ global_calls' = w.global_calls
       /\ stdout' = w.stdout
       /\ parses' = w.parses
       /\ current' = w.current
       /\ visited' = visited + 1
       /\ seen' = IF w.parses > parses THEN Seen(seen, tu) ELSE seen
       /\ plain' = [plain EXCEPT !.global_funcs = q.global_funcs,
                                 !.global_calls = q.global_calls]

\* main, lines 242-247: the include paths are read and printed.
ReadIncludePaths ==
    /\ pc = "start"
    /\ IF include = "missing"
       THEN /\ Raise("FileNotFoundError", IncludeFile)
            /\ UNCHANGED stdout
       ELSE /\ pc' = "check"
            /\ stdout' = IF include = "given"
                         THEN Append(stdout, Line("includes", <<>>, 0))
                         ELSE stdout
            /\ UNCHANGED stderr
    /\ UNCHANGED <<pathkind, silent, verbose, include, folder, global_funcs, global_calls,
                   visited, current, parses, syscalls, compared,
                   called_syscalls, define_syscalls, output_dict, written,
                   seen, plain, chain, qualified>>

\* check_input_path on a directory: the walk of iterate_root_folder starts.
CheckInputDir ==
    /\ pc = "check"
    /\ "dir" \in PathKinds(folder)
    /\ pathkind' = "dir"
    /\ pc' = "walk"
    /\ UNCHANGED <<silent, verbose, include, folder, global_funcs, global_calls,
                   stdout, stderr, visited, current, parses, syscalls, compared,
                   called_syscalls, define_syscalls, output_dict, written,
                   seen, plain, chain, qualified>>

\* check_input_path on a regular file.
CheckInputFile ==
    /\ pc = "check"
    /\ "file" \in PathKinds(folder)
    /\ pathkind' = "file"
    /\ \E tu \in Units(folder) : CheckTypeFile(folder, tu)
    /\ pc' = "finish"
    /\ UNCHANGED <<silent, verbose, include, folder, stderr, syscalls, compared,
                   called_syscalls, define_syscalls, output_dict, written,
                   chain, qualified>>

\* check_input_path on a path that is neither: line 51 calls sys.stderr, which
\* is no callable, so a TypeError leaves main before anything is written.
CheckInputOther ==
    /\ pc = "check"
    /\ "none" \in PathKinds(folder)
    /\ Raise("TypeError", None)
    /\ pathkind' = "none"
    /\ UNCHANGED <<silent, verbose, include, folder, global_funcs, global_calls,
                   stdout, visited, current, parses, syscalls, compared,
                   called_syscalls, define_syscalls, output_dict, written,
                   seen, plain, chain, qualified>>

\* One iteration of iterate_root_folder: os.walk yields a file.  Any path may
\* come, a path that came before included, so that the processing of one path
\* twice in a run is among the behaviours.
IterateRootFolder ==
    /\ pc = "walk"
    /\ visited < MaxFiles
    /\ \E filepath \in FileNames : \E tu \in Units(filepath) :
           CheckTypeFile(filepath, tu)
    /\ UNCHANGED <<pathkind, pc, silent, verbose, include, folder, stderr, syscalls,
                   compared, called_syscalls, define_syscalls, output_dict,
                   written, chain, qualified>>

\* os.walk is exhausted.
WalkDone ==
    /\ pc = "walk"
    /\ pc' = "finish"
    /\ UNCHANGED <<pathkind, silent, verbose, include, folder, global_funcs, global_calls,
                   stdout, stderr, visited, current, parses, syscalls, compared,
                   called_syscalls, define_syscalls, output_dict, written,
                   seen, plain, chain, qualified>>

\* main, lines 252-262.
BuildOutput ==
    /\ pc = "finish"
    /\ stdout' = IF ~silent THEN Append(stdout, Line("separator", <<>>, 0))
                 ELSE stdout
    /\ output_dict' = [output_dict EXCEPT !.functions = Entries(global_funcs),
                                          !.calls = Entries(global_calls)]
    /\ plain' = [plain EXCEPT
                    !.output_dict.functions = Entries(plain.global_funcs),
                    !.output_dict.calls = Entries(plain.global_calls)]
    /\ pc' = "read"
    /\ UNCHANGED <<pathkind, silent, verbose, include, folder, global_funcs, global_calls,
                   stderr, visited, current, parses, syscalls, compared,
                   called_syscalls, define_syscalls, written, seen, chain,
                   qualified>>

\* Faulty variant: a missing list is reported and taken as the empty list.
ReadSyscallsListLenient ==
    /\ pc = "read"
    /\ \/ /\ stderr' = Append(stderr, Message("FileNotFoundError", SyscallsFile))
          /\ syscalls' = <<>>
       \/ /\ \E list \in Syscalls : syscalls' = list
          /\ UNCHANGED stderr
    /\ pc' = "compare"
    /\ UNCHANGED <<pathkind, silent, verbose, include, folder, global_funcs,
                   global_calls, stdout, visited, current, parses, compared,
                   called_syscalls, define_syscalls, output_dict, written,
                   seen, plain, chain, qualified>>

\* main, line 265: read_syscalls_list; the file may be missing or unreadable.
ReadSyscallsList ==
    /\ pc = "read"
    /\ \/ /\ Raise("FileNotFoundError", SyscallsFile)
          /\ UNCHANGED syscalls
       \/ /\ \E list \in Syscalls : syscalls' = list
          /\ pc' = "compare"
          /\ UNCHANGED stderr
    /\ UNCHANGED <<pathkind, silent, verbose, include, folder, global_funcs, global_calls,
                   stdout, visited, current, parses, compared, called_syscalls,
                   define_syscalls, output_dict, written, seen, plain, chain,
                   qualified>>

\* main, lines 267-269.
CompareSyscalls ==
    /\ pc = "compare"
    /\ LET r == compare_syscalls(World, syscalls, silent, verbose)
           q == compare_syscalls(PlainWorld, syscalls, FALSE, FALSE)
       IN /\ stdout' = r.stdout
          /\ called_syscalls' = r.called_syscalls
          /\ define_syscalls' = r.define_syscalls
          /\ output_dict' =
                [output_dict EXCEPT !.called_syscalls = r.called_syscalls,
                                    !.define_syscalls = r.define_syscalls]
          /\ plain' = [plain EXCEPT
                          !.called_syscalls = q.called_syscalls,
                          !.define_syscalls = q.define_syscalls,
                          !.output_dict.called_syscalls = q.called_syscalls,
                          !.output_dict.define_syscalls = q.define_syscalls]
    /\ compared' = compared + 1
    /\ pc' = "write"
    /\ UNCHANGED <<pathkind, silent, verbose, include, folder, global_funcs, global_calls,
                   stderr, visited, current, parses, syscalls, written, seen,
                   chain, qualified>>

\* main, lines 271-276: the output file is opened and the document dumped.
WriteOutput ==
    /\ pc = "write"
    /\ written' = Append(written, output_dict)
    /\ plain' = [plain EXCEPT !.written = Append(@, plain.output_dict)]
    /\ pc' = "done"
    /\ UNCHANGED <<pathkind, silent, verbose, include, folder, global_funcs, global_calls,
                   stdout, stderr, visited, current, parses, syscalls, compared,
                   called_syscalls, define_syscalls, output_dict, seen, chain,
                   qualified>>

Next ==
    \/ ReadIncludePaths
    \/ CheckInputDir
    \/ CheckInputFile
    \/ CheckInputOther
    \/ IterateRootFolder
    \/ WalkDone
    \/ BuildOutput
    \/ ReadSyscallsList
    \/ CompareSyscalls
    \/ WriteOutput

Spec == Init /\ [][Next]_vars

---------------------------------------------------------------------------
(* The resolver alone: fully_qualified applied to one cursor *)
Spellings == {<<>>, <<"n">>, <<"b">>}
Functions == {Scope("FUNCTION_DECL", <<"f">>), Scope("FUNCTION_DECL", <<"g">>)}
Scopes(n) == UNION {[1..k -> {Namespace(sp) : sp \in Spellings}] : k \in 0..n}

\* A function below at most MaxDepth - 1 named or unnamed scopes, with or
\* without the translation unit above them; the translation unit itself; the
\* absent cursor.
Chains ==
    {<<>>, <<Root>>} \cup
    { top \o mid \o <<fn>> :
        top \in {<<>>, <<Root>>}, mid \in Scopes(MaxDepth - 1), fn \in Functions }

InitFQ ==
    /\ pc = "resolve"
    /\ silent = FALSE
    /\ verbose = TRUE
    /\ include = "none"
    /\ folder = FileA
    /\ chain \in Chains
    /\ Fresh

Resolve ==
    /\ pc = "resolve"
    /\ qualified' = fully_qualified(chain)
    /\ pc' = "resolved"
    /\ UNCHANGED <<silent, verbose, include, folder, global_funcs, global_calls,
                   stdout, stderr, visited, current, parses, syscalls, compared,
                   called_syscalls, define_syscalls, output_dict, written,
                   seen, plain, pathkind, chain>>

NextFQ == Resolve

SpecFQ == InitFQ /\ [][NextFQ]_vars

---------------------------------------------------------------------------
(* Properties *)
Count(table, key) == IF key \in DOMAIN table THEN table[key].count ELSE 0
Files(table, key) == IF key \in DOMAIN table THEN table[key].files ELSE <<>>

\* The unit handed to find_funcs_and_calls by the step, the empty unit when
\* the step parses nothing.
Parsed(before, after, unit) == IF after > before THEN unit ELSE NoUnit

CountsMatch(table, total) ==
    \A key \in DOMAIN table : key \in Keys /\ table[key].count = total[key]

CountsGrow(old, new, unit, cursorkind) ==
    /\ DOMAIN old \subseteq DOMAIN new
    /\ \A key \in DOMAIN new :
          Count(new, key) = Count(old, key) + Occurrences(unit, cursorkind, key)

\* C1: in both tables the count stored for a name is the number of qualifying
\* cursors of that name (display name cut before its first "(") seen so far
\* in the run; a step that processes a unit holding the name k times raises
\* its count by exactly k, no key is ever dropped and no count ever decreases.
CountsAreOccurrences ==
    /\ [](/\ CountsMatch(global_calls, seen.calls)
          /\ CountsMatch(global_funcs, seen.funcs))
    /\ [][LET unit == Parsed(parses, parses', current'.tu)
          IN /\ CountsGrow(global_calls, global_calls', unit, "CALL_EXPR")
             /\ CountsGrow(global_funcs, global_funcs', unit, "FUNCTION_DECL")]_vars

\* Two units have been processed and a name counted three times or more is
\* recorded with both files.
CountedAcrossUnits ==
    /\ parses = 2
    /\ \E key \in DOMAIN global_calls :
          /\ global_calls[key].count >= 3
          /\ Len(global_calls[key].files) = 2

NoPathTwice(table) ==
    \A key \in DOMAIN table :
        \A i, j \in 1..Len(table[key].files) :
            i # j => table[key].files[i] # table[key].files[j]

AtMostOnePath(old, new, path) ==
    \A key \in DOMAIN new :
        IF path \in Range(Files(old, key))
        THEN new[key].files = Files(old, key)
        ELSE \/ new[key].files = Files(old, key)
             \/ new[key].files = Append(Files(old, key), path)

\* C2: no record of either table holds a path twice; a step adds at most one
\* path to a name's record, the primary file of the unit it processes, and
\* adds nothing to a record that already holds that path, however many
\* occurrences it counts.
FilesAreDeduplicated ==
    /\ [](NoPathTwice(global_calls) /\ NoPathTwice(global_funcs))
    /\ [][/\ AtMostOnePath(global_calls, global_calls', current'.file)
          /\ AtMostOnePath(global_funcs, global_funcs', current'.file)]_vars

\* A name has more occurrences than files: its two files were each added
\* once although one of them holds the name more than once.
OccurrencesExceedFiles ==
    \E key \in DOMAIN global_calls :
        /\ Len(global_calls[key].files) = 2
        /\ global_calls[key].count > 2

Qualifies(tu, i) ==
    /\ tu.nodes[i].file # None
    /\ tu.nodes[i].file = tu.spelling

TouchedOnlyBy(old, new, tu, cursorkind) ==
    \A key \in DOMAIN new :
        (key \notin DOMAIN old \/ new[key] # old[key]) =>
            /\ \E i \in 1..Len(tu.nodes) :
                  /\ Qualifies(tu, i)
                  /\ tu.nodes[i].kind = cursorkind
                  /\ Truncated(tu.nodes[i].displayname) = key
            /\ Range(new[key].files) \subseteq
                  Range(Files(old, key)) \cup {tu.spelling}

\* C3: the sequences find_funcs_and_calls returns hold only cursors located
\* in the unit's primary file, and a step changes a table only under the
\* names of such cursors and adds no file but the primary one: a cursor
\* without location file or located in an included header changes nothing.
OnlyPrimaryFileCursors ==
    /\ [](current.parsed =>
            \A i \in Range(current.funcs) \cup Range(current.calls) :
                Qualifies(current.tu, i))
    /\ [][LET unit == Parsed(parses, parses', current'.tu)
          IN /\ TouchedOnlyBy(global_calls, global_calls', unit, "CALL_EXPR")
             /\ TouchedOnlyBy(global_funcs, global_funcs', unit, "FUNCTION_DECL")]_vars

\* A unit of a.cc that includes h.h has just been processed: the header's
\* declaration is not among the returned declarations and h.h is in no record.
HeaderDeclarationSkipped ==
    /\ current.parsed
    /\ current.file = FileA
    /\ \E i \in 1..Len(current.tu.nodes) :
          current.tu.nodes[i] = HeaderDecl /\ i \notin Range(current.funcs)
    /\ current.calls # <<>>
    /\ \A key \in DOMAIN global_funcs : FileH \notin Range(global_funcs[key].files)

Selected(table, list) ==
    [key \in {name \in DOMAIN table : \E i \in 1..Len(list) : list[i] = name}
        |-> table[key]]

\* C4: once compare_syscalls has returned, called_syscalls maps exactly the
\* names of the call table that are in the syscall list to their call-table
\* records, and define_syscalls exactly the names of the declaration table
\* that are in the list to their declaration-table records.
ClassificationIsIntersection ==
    pc \in {"write", "done"} =>
        /\ called_syscalls = Selected(global_calls, syscalls)
        /\ define_syscalls = Selected(global_funcs, syscalls)
        /\ output_dict.called_syscalls = called_syscalls
        /\ output_dict.define_syscalls = define_syscalls

\* A syscall that is called and declared appears in both results with
\* different counts, and a declared name outside the list in neither.
ClassifiedInBoth ==
    /\ pc = "done"
    /\ NameR \in DOMAIN called_syscalls
    /\ NameR \in DOMAIN define_syscalls
    /\ called_syscalls[NameR].count # define_syscalls[NameR].count
    /\ <<"w">> \in DOMAIN global_funcs
    /\ <<"w">> \notin DOMAIN define_syscalls
    /\ <<"w">> \notin DOMAIN called_syscalls

Rooted(c) == c # <<>> /\ c[1].kind = "TRANSLATION_UNIT"

RECURSIVE Joined(_)
Joined(names) ==
    IF names = <<>> THEN <<>>
    ELSE IF Len(names) = 1 THEN names[1]
    ELSE names[1] \o <<":", ":">> \o Joined(Tail(names))

NamedSpellings(c) ==
    SelectSeq([i \in 1..(Len(c) - 1) |-> c[i + 1].spelling],
              LAMBDA sp : sp # <<>>)

\* C5: for a cursor whose chain of semantic parents ends at the translation
\* unit, fully_qualified returns the non-empty spellings below the root,
\* down to the cursor, joined by "::"; unnamed scopes are skipped wherever
\* they are in the chain.
QualifiedSkipsUnnamed ==
    (pc = "resolved" /\ Rooted(chain)) =>
        qualified = Joined(NamedSpellings(chain))

\* C6: when args.folder is neither a directory nor a regular file, a message
\* naming it is on the error stream, the run has aborted, nothing was parsed,
\* the tables are empty and no document is written.
BadPathIsReported ==
    pathkind = "none" =>
        /\ \E i \in 1..Len(stderr) : stderr[i].path = folder
        /\ pc = "aborted"
        /\ parses = 0
        /\ global_funcs = <<>> /\ global_calls = <<>>
        /\ written = <<>>

ListMissing == \E i \in 1..Len(stderr) : stderr[i].path = SyscallsFile

\* C7: when the syscall list cannot be read the run has aborted without
\* executing compare_syscalls and without writing a document; when a document
\* is written the list was read, compare_syscalls ran exactly once, and it
\* ran after the traversal.
MissingListAborts ==
    /\ ListMissing =>
          pc = "aborted" /\ compared = 0 /\ written = <<>> /\ syscalls = NoList
    /\ written # <<>> =>
          /\ syscalls # NoList
          /\ compared = 1
          /\ Len(written) = 1
          /\ pc = "done"
    /\ compared > 0 => pc \in {"write", "done"}

\* The list is missing after two units were folded into the tables.
AbortedAfterTraversal ==
    /\ ListMissing
    /\ parses = 2
    /\ global_calls # <<>>

Extension(path, exts) == \E ext \in exts : EndsWith(path, ext)
CppExtensions == {<<".", "c", "p", "p">>, <<".", "h", "p", "p">>, <<".", "c", "c">>}
CExtensions == {<<".", "c">>, <<".", "h">>, <<".", "h", "h">>}

\* C8: a step of the directory walk on a file with no supported extension
\* parses nothing, changes no table, emits nothing and does not stop the
\* walk; on a file with a supported extension it invokes the provider once,
\* with the C++ options for .cpp, .hpp and .cc and without them otherwise.
UnsupportedSkippedSilently ==
    [][(pc = "walk" /\ visited' = visited + 1) =>
          IF ~Extension(current'.file, CppExtensions \cup CExtensions)
          THEN /\ parses' = parses
               /\ UNCHANGED <<global_funcs, global_calls, stdout, stderr>>
               /\ pc' = "walk"
          ELSE /\ parses' = parses + 1
               /\ current'.arguments =
                     (IF Extension(current'.file, CppExtensions)
                      THEN CppOptions ELSE <<>>)
                     \o (IF include = "given" THEN IncludeFlags ELSE <<>>)]_vars

\* C9: with silent enabled and verbose disabled nothing of the progress
\* narration is ever printed, and a run that completes has written one
\* document, the one the run without the flag writes.
SilentPrintsNothing ==
    /\ (silent /\ ~verbose) =>
          \A i \in 1..Len(stdout) : stdout[i].kind \notin Progress
    /\ pc = "done" => Len(written) = 1 /\ written = plain.written

\* C10: whatever verbose is, the tables, the classification results and the
\* document are those of the same run with the flags disabled: the listing
\* of display_info_function changes none of them.
VerboseChangesNothing ==
    /\ global_funcs = plain.global_funcs
    /\ global_calls = plain.global_calls
    /\ called_syscalls = plain.called_syscalls
    /\ define_syscalls = plain.define_syscalls
    /\ output_dict = plain.output_dict
    /\ written = plain.written

\* A verbose run is done and its listing showed a call site matched to a
\* declaration.
ListingShown ==
    /\ verbose
    /\ pc = "done"
    /\ \E i \in 1..Len(stdout) : stdout[i].kind = "site"
    /\ global_calls # <<>>

====
